---- MODULE Spec2Model ----
(***************************************************************************)
(* Model of the streaming chat session engine of the chat widget: the      *)
(* useChat hook (hooks/use-chat), its storage helpers, its SSE line        *)
(* parser and its inline suggestion extractors.                            *)
(*                                                                         *)
(* React state is modelled as the value the next render will show; the     *)
(* values captured by the callbacks of the last render are kept apart in   *)
(* "rendered", because the guard of sendMessage reads isLoading and        *)
(* isStreaming from its closure, not from the state.                       *)
(***************************************************************************)
EXTENDS Integers, Sequences, FiniteSets, TLC

(* ---------------------------------------------------------------------- *)
(* Bounds                                                                 *)
(* ---------------------------------------------------------------------- *)
\* sendMessage calls that get past the guard
MaxCalls == 2
\* the same, in the specification of overlapping calls
RaceCalls == 3
\* reader.read() results that deliver bytes, over all responses
MaxReads == 2
\* startNewChat calls
MaxNewChats == 1
\* text deltas in a reply whose two framings are compared
MaxDeltas == 2

(* ---------------------------------------------------------------------- *)
(* Text: a string is a sequence of characters; " " is whitespace.          *)
(* ---------------------------------------------------------------------- *)
RECURSIVE TrimStart(_)
TrimStart(s) ==
  IF s = <<>> THEN <<>>
  ELSE IF Head(s) = " " THEN TrimStart(Tail(s)) ELSE s

RECURSIVE TrimEnd(_)
TrimEnd(s) ==
  IF s = <<>> THEN <<>>
  ELSE IF s[Len(s)] = " " THEN TrimEnd(SubSeq(s, 1, Len(s) - 1)) ELSE s

\* String.prototype.trim
Trim(s) == TrimEnd(TrimStart(s))

\* String.prototype.includes
Includes(s, sub) ==
  \E i \in 1..(Len(s) - Len(sub) + 1) : SubSeq(s, i, i + Len(sub) - 1) = sub

\* the texts a caller passes to sendMessage
UserTexts == { <<>>, <<" ">>, <<" ", "b">> }

(* ---------------------------------------------------------------------- *)
(* Errors: the error state is null or a message                            *)
(* ---------------------------------------------------------------------- *)
NoError == [set |-> FALSE, msg |-> <<>>]
Err(m) == [set |-> TRUE, msg |-> m]

\* the status codes of a response with ok = false
Statuses == {"500"}

\* `HTTP ${response.status}`
HttpMessage(status) == <<"HTTP", " ", status>>

\* the body of a non-ok response, after response.json().catch(() => ({})):
\* has |-> the body is JSON with a detail field; detail |-> its value
ErrorBodies ==
  { [has |-> FALSE, detail |-> <<>>],
    [has |-> TRUE, detail |-> <<>>],
    [has |-> TRUE, detail |-> <<"rate", " ", "limited">>],
    [has |-> TRUE, detail |-> <<"HTTP", " ", "down">>] }

\* new Error('No response body')
NoBodyMessage == <<"No", " ", "response", " ", "body">>
\* the message of the TypeError fetch and reader.read reject with
NetworkMessage == <<"Failed", " ", "to", " ", "fetch">>

(* ---------------------------------------------------------------------- *)
(* The response body: a sequence of tokens. A token is a newline, a        *)
(* whitespace character, a line prefix, a JSON value or text that is not   *)
(* JSON.                                                                   *)
(* ---------------------------------------------------------------------- *)
NL == [k |-> "nl"]
SP == [k |-> "sp"]
Pfx(p) == [k |-> "pfx", p |-> p]
Raw(s) == [k |-> "raw", s |-> s]
Json(v) == [k |-> "json", v |-> v]

NoArr == [present |-> FALSE, items |-> <<>>]
Arr(items) == [present |-> TRUE, items |-> items]

\* a JSON object, with the fields the engine looks at
Obj(type, chunk, done, error, finishReason, sr, products) ==
  [t |-> "obj", type |-> type, chunk |-> chunk, done |-> done, error |-> error,
   finishReason |-> finishReason, sr |-> sr, products |-> products]
JNull == [t |-> "null"]
JStr(s) == [t |-> "str", s |-> s]

ChunkObj(text) == Obj("", text, FALSE, <<>>, FALSE, NoArr, NoArr)
DoneObj == Obj("", <<>>, TRUE, <<>>, FALSE, NoArr, NoArr)
ErrorObj(m) == Obj("", <<>>, FALSE, m, FALSE, NoArr, NoArr)
EmptyObj == Obj("", <<>>, FALSE, <<>>, FALSE, NoArr, NoArr)
SuggestedObj(items) == Obj("suggested_responses", <<>>, FALSE, <<>>, FALSE, Arr(items), NoArr)
ProductsObj(items) == Obj("product_suggestions", <<>>, FALSE, <<>>, FALSE, NoArr, Arr(items))

RECURSIVE TokTrimStart(_)
TokTrimStart(l) ==
  IF l = <<>> THEN <<>>
  ELSE IF Head(l) = SP THEN TokTrimStart(Tail(l)) ELSE l

RECURSIVE TokTrimEnd(_)
TokTrimEnd(l) ==
  IF l = <<>> THEN <<>>
  ELSE IF l[Len(l)] = SP THEN TokTrimEnd(SubSeq(l, 1, Len(l) - 1)) ELSE l

\* line.trim()
TokTrim(l) == TokTrimEnd(TokTrimStart(l))

\* the characters of a token, as line.slice(n) returns them
SrcText(tok) ==
  CASE tok.k = "sp" -> <<" ">>
    [] tok.k = "nl" -> <<"\n">>
    [] tok.k = "pfx" -> <<tok.p>>
    [] tok.k = "raw" -> tok.s
    [] tok.k = "json" ->
         CASE tok.v.t = "null" -> <<"null">>
           [] tok.v.t = "str" -> <<"\"">> \o tok.v.s \o <<"\"">>
           [] tok.v.t = "obj" -> <<"{}">>

RECURSIVE SliceText(_)
SliceText(l) == IF l = <<>> THEN <<>> ELSE SrcText(Head(l)) \o SliceText(Tail(l))

\* JSON.parse: succeeds on one JSON value with optional whitespace around it
JsonParses(l) == Len(TokTrim(l)) = 1 /\ TokTrim(l)[1].k = "json"
JsonValue(l) == TokTrim(l)[1].v

\* buffer.split('\n')
RECURSIVE Split(_)
Split(b) ==
  IF \A i \in 1..Len(b) : b[i] # NL THEN <<b>>
  ELSE LET i == CHOOSE j \in 1..Len(b) : b[j] = NL /\ \A h \in 1..(j - 1) : b[h] # NL
       IN <<SubSeq(b, 1, i - 1)>> \o Split(SubSeq(b, i + 1, Len(b)))

(* ---------------------------------------------------------------------- *)
(* parseSSELine: the event of one line, or null                            *)
(* ---------------------------------------------------------------------- *)
\* null, and every other falsy result
NullEvent == [null |-> TRUE, chunk |-> <<>>, done |-> FALSE, error |-> <<>>,
              sr |-> NoArr, ps |-> NoArr]
Event(chunk, done, error, sr, ps) ==
  [null |-> FALSE, chunk |-> chunk, done |-> done, error |-> error, sr |-> sr, ps |-> ps]

\* line.startsWith(p); a trimmed line cannot end with the blank of 'data: '
StartsWith(line, p) ==
  /\ line # <<>>
  /\ Head(line) = Pfx(p)
  /\ (p = "data: " => Len(line) > 1)

\* a payload taken as it is written on the line, quotes included
ChunkOfValueUnparsed(v) ==
  CASE v.t = "str" -> <<"\"">> \o v.s \o <<"\"">>
    [] v.t = "null" -> <<"null">>
    [] v.t = "obj" -> <<"{}">>

\* the value of the expression `chunk: content` when content is any JSON value
ChunkOfValue(v) ==
  CASE v.t = "str" -> v.s
    [] v.t = "null" -> <<>>
    [] v.t = "obj" -> <<"[object Object]">>

parseSSELine(line) ==
  IF StartsWith(line, "data: ") THEN
    LET rest == Tail(line) IN
    IF JsonParses(rest) /\ JsonValue(rest).t # "null" THEN
      LET data == JsonValue(rest) IN
      IF data.t = "str" THEN
        \* a string has no fields; the empty string is falsy
        IF data.s = <<>> THEN NullEvent ELSE Event(<<>>, FALSE, <<>>, NoArr, NoArr)
      ELSE IF data.type = "suggested_responses" /\ data.sr.present THEN
        Event(<<>>, FALSE, <<>>, data.sr, NoArr)
      ELSE IF data.type = "product_suggestions" /\ data.products.present THEN
        Event(<<>>, FALSE, <<>>, NoArr, data.products)
      ELSE Event(data.chunk, data.done, data.error, NoArr, NoArr)
    ELSE
      \* JSON.parse threw, or data.type threw on null
      Event(SliceText(rest), FALSE, <<>>, NoArr, NoArr)
  ELSE IF StartsWith(line, "0:") THEN
    LET rest == Tail(line) IN
    IF JsonParses(rest)
    THEN Event(ChunkOfValue(JsonValue(rest)), FALSE, <<>>, NoArr, NoArr)
    ELSE Event(SliceText(rest), FALSE, <<>>, NoArr, NoArr)
  ELSE IF StartsWith(line, "e:") \/ StartsWith(line, "d:") THEN
    LET rest == Tail(line) IN
    IF JsonParses(rest) /\ JsonValue(rest).t # "null" THEN
      LET data == JsonValue(rest) IN
      IF (data.t = "obj" /\ data.finishReason) \/ StartsWith(line, "d:")
      THEN Event(<<>>, TRUE, <<>>, NoArr, NoArr)
      ELSE NullEvent
    ELSE NullEvent
  ELSE NullEvent

(* ---------------------------------------------------------------------- *)
(* Inline suggestion extractors. A JSON island of the message text is one  *)
(* character of the text; "{" is a brace that belongs to no island.        *)
(* ---------------------------------------------------------------------- *)
\* ```json {"type":"suggested_responses","suggested_responses":["A"]} ```
FenceSR == "<fence-sr>"
\* {"type":"suggested_responses","suggested_responses":["A"]}
BareSR == "<bare-sr>"
\* {"type":"suggested_responses", ...  that JSON.parse rejects
BadSR == "<bad-sr>"
\* ```json {"type":"product_suggestions","products":[{"productId":"p1"}]} ```
FencePS == "<fence-ps>"
\* {"products":[{"productId":"p1"}],"type":"product_suggestions"}
BarePS == "<bare-ps>"
\* {"type":"product_suggestions","products":[{"productId":"p1"}]}: the plain
\* pattern stops at the first closing brace, that of the product, and
\* JSON.parse rejects what it matched
TypeFirstPS == "<type-first-ps>"
\* what is left of a fenced island once its JSON is removed
FenceRest == "<fence-rest>"

Islands == {FenceSR, BareSR, BadSR, FencePS, BarePS, TypeFirstPS}
IsFenced(c) == c \in {FenceSR, FencePS}
TagOf(c) == IF c \in {FenceSR, BareSR, BadSR} THEN "suggested_responses" ELSE "product_suggestions"
IsValidJson(c) == c \in {FenceSR, BareSR, FencePS, BarePS}
ItemsOf(c) == IF TagOf(c) = "suggested_responses" THEN <<"A">> ELSE <<"p1">>
HasBrace(c) == c \in Islands \/ c = "{"

RemoveAt(s, i) == SubSeq(s, 1, i - 1) \o SubSeq(s, i + 1, Len(s))
ReplaceAt(s, i, c) == SubSeq(s, 1, i - 1) \o <<c>> \o SubSeq(s, i + 1, Len(s))

\* jsonPattern.exec(content): the first fenced island of the tag, or 0
FencedMatch(content, tag) ==
  IF \E i \in 1..Len(content) : content[i] \in Islands /\ IsFenced(content[i]) /\ TagOf(content[i]) = tag
  THEN CHOOSE i \in 1..Len(content) :
         /\ content[i] \in Islands /\ IsFenced(content[i]) /\ TagOf(content[i]) = tag
         /\ \A h \in 1..(i - 1) : ~(content[h] \in Islands /\ IsFenced(content[h]) /\ TagOf(content[h]) = tag)
  ELSE 0

\* content.match(plainJsonPattern): the matches from position pos on, each
\* from the leftmost brace to the first island of the tag at or after it
RECURSIVE PlainMatches(_, _, _)
PlainMatches(content, tag, pos) ==
  LET starts == {i \in pos..Len(content) : HasBrace(content[i])} IN
  IF starts = {} THEN <<>>
  ELSE LET i == CHOOSE x \in starts : \A y \in starts : x <= y
           ends == {j \in i..Len(content) : content[j] \in Islands /\ TagOf(content[j]) = tag}
       IN IF ends = {} THEN <<>>
          ELSE LET j == CHOOSE x \in ends : \A y \in ends : x <= y
               IN <<[from |-> i, to |-> j]>> \o PlainMatches(content, tag, j + 1)

\* the first match that JSON.parse accepts as a payload of the tag, or 0
FirstValidPlain(content, ms) ==
  IF \E n \in 1..Len(ms) : ms[n].from = ms[n].to /\ IsValidJson(content[ms[n].to])
  THEN (CHOOSE n \in 1..Len(ms) :
          /\ ms[n].from = ms[n].to /\ IsValidJson(content[ms[n].to])
          /\ \A h \in 1..(n - 1) : ~(ms[h].from = ms[h].to /\ IsValidJson(content[ms[h].to])))
  ELSE 0

\* the body shared by parseSuggestedResponses and parseProductSuggestions
ParseInline(content, tag) ==
  LET f == FencedMatch(content, tag)
      fencedOk == f # 0 /\ IsValidJson(content[f])
      items1 == IF fencedOk THEN ItemsOf(content[f]) ELSE <<>>
      clean1 == IF fencedOk THEN Trim(RemoveAt(content, f)) ELSE content
      ms == PlainMatches(content, tag, 1)
      n == FirstValidPlain(content, ms)
  IN IF items1 # <<>> \/ n = 0
     THEN [cleanContent |-> clean1, items |-> items1]
     ELSE LET j == ms[n].to
          IN [cleanContent |->
                Trim(IF IsFenced(content[j]) THEN ReplaceAt(content, j, FenceRest)
                     ELSE RemoveAt(content, j)),
              items |-> ItemsOf(content[j])]

parseSuggestedResponses(content) == ParseInline(content, "suggested_responses")
parseProductSuggestions(content) == ParseInline(content, "product_suggestions")

(* ---------------------------------------------------------------------- *)
(* The read loop of sendMessage                                            *)
(* ---------------------------------------------------------------------- *)
\* the locals of one sendMessage call while it reads the body; error is the
\* message of the error frame that ended the loop, shown is whether
\* setStreamingMessage(fullResponse) was called
Locals(full, rsr, rps, error, shown) ==
  [full |-> full, rsr |-> rsr, rps |-> rps, error |-> error, shown |-> shown]

\* for (const line of lines) { ... }
RECURSIVE ProcessLines(_, _)
ProcessLines(lines, acc) ==
  IF lines = <<>> THEN acc
  ELSE LET trimmedLine == TokTrim(Head(lines))
           parsed == parseSSELine(trimmedLine)
       IN IF trimmedLine = <<>> \/ parsed.null THEN ProcessLines(Tail(lines), acc)
          ELSE IF parsed.error # <<>> THEN [acc EXCEPT !.error = parsed.error]
          ELSE LET next == Locals(acc.full \o parsed.chunk,
                                  IF parsed.sr.present THEN parsed.sr.items ELSE acc.rsr,
                                  IF parsed.ps.present THEN parsed.ps.items ELSE acc.rps,
                                  <<>>,
                                  acc.shown \/ parsed.chunk # <<>>)
               IN IF parsed.done THEN next ELSE ProcessLines(Tail(lines), next)

\* an end of body that drops the unterminated last line
ProcessRemainingDropped(buffer, acc) == acc

\* if (buffer.trim()) { ... } after the loop
ProcessRemaining(buffer, acc) ==
  IF TokTrim(buffer) = <<>> THEN acc
  ELSE LET parsed == parseSSELine(TokTrim(buffer))
       IN Locals(acc.full \o parsed.chunk,
                 IF parsed.sr.present THEN parsed.sr.items ELSE acc.rsr,
                 IF parsed.ps.present THEN parsed.ps.items ELSE acc.rps,
                 <<>>, acc.shown)

\* a resolution that ignores the suggestions received in SSE frames
ResolveTurnInlineOnly(full, rsr, rps) ==
  LET p1 == parseSuggestedResponses(full)
      p2 == parseProductSuggestions(p1.cleanContent)
  IN [content |-> p2.cleanContent, suggestions |-> p1.items, products |-> p2.items]

\* the assistant turn built from fullResponse and the received suggestions
ResolveTurn(full, rsr, rps) ==
  LET p1 == IF rsr = <<>> THEN parseSuggestedResponses(full)
            ELSE [cleanContent |-> full, items |-> rsr]
      p2 == IF rps = <<>> THEN parseProductSuggestions(p1.cleanContent)
            ELSE [cleanContent |-> p1.cleanContent, items |-> rps]
  IN [content |-> p2.cleanContent, suggestions |-> p1.items, products |-> p2.items]

\* what one reader.read() can deliver
ReadChunks ==
  { <<Pfx("data: "), Json(ChunkObj(<<"x">>)), NL>>,
    <<Pfx("data: "), Json(SuggestedObj(<<"A">>)), NL, Pfx("data: "), Json(DoneObj), NL>>,
    <<Pfx("data: "), Json(ErrorObj(<<"boom">>)), NL>>,
    <<Pfx("0:"), Json(JStr(<<"z">>))>> }

(* ---------------------------------------------------------------------- *)
(* State of one useChat instance and of the browser storage it uses        *)
(* ---------------------------------------------------------------------- *)
VARIABLES
  mounted,             \* the mount effect has run
  uncaught,            \* an exception escaped the mount effect
  config,              \* how the caller-supplied callbacks behave
  messages, isLoading, isStreaming, streamingMessage, error,
  suggestedResponses, productSuggestions,      \* the useState values
  rendered,            \* the values the callbacks of the last render closed over
  dirty,               \* a state setter was called since the last render
  depsChanged,         \* a dependency of the save effect was set since then
  sessionIdRef, chatSessionIdRef, abortControllerRef,
  localSessionId,      \* localStorage[prefix_session_id], 0 when absent
  sessionChatId,       \* sessionStorage[prefix_chat_session_id], 0 when absent
  localStore,          \* localStorage[prefix_chat_messages]
  calls,               \* the sendMessage calls that got past the guard
  nextCall,            \* the number of the next such call
  reads,               \* the chunks that reader.read() has delivered so far
  callLimit,           \* the number of such calls a behaviour may make
  nextId,              \* the next value of generateId()
  newChats,            \* startNewChat calls so far
  reports,             \* the onErrorOccurred invocations of the task that ran last
  isInitialized,       \* the embed script has run init()
  isModalOpen, isHydrated, isMinimizing,       \* useState values of ChatModal
  minimizedKey,        \* localStorage[prefix-minimized]: "none", "true" or "false"
  pendingMessageKey,   \* localStorage[prefix_pending_message], <<>> when absent
  pendingMessage,      \* the pendingMessage state of ChatModalProvider, <<>> when null
  line, parsed,        \* the argument and the result of a call of parseSSELine
  listeners,           \* the handlers EventBridge holds, by event
  cartItems,           \* the quantity of the product in the cart store
  cartState,           \* the cart state the cart button rendered with
  isCheckoutOpen,      \* the built-in checkout modal is shown
  invoked,             \* the handler invocations of the task that ran last
  payment              \* config.payment of the embed

engineVars == <<messages, isLoading, isStreaming, streamingMessage, error,
                suggestedResponses, productSuggestions>>
refVars == <<sessionIdRef, chatSessionIdRef, abortControllerRef>>
storeVars == <<localSessionId, sessionChatId, localStore>>
widgetVars == <<isInitialized, isModalOpen, isHydrated, isMinimizing, minimizedKey>>
pendingVars == <<pendingMessageKey, pendingMessage>>
parseVars == <<line, parsed>>
cartVars == <<listeners, cartItems, cartState, isCheckoutOpen, invoked, payment>>
pageVars == <<parseVars, cartVars>>
vars == <<mounted, uncaught, config, engineVars, rendered, dirty, depsChanged, refVars,
          storeVars, calls, nextCall, reads, callLimit, nextId, newChats, reports,
          widgetVars, pendingVars, pageVars>>

CallIds == 1..(IF MaxCalls > RaceCalls THEN MaxCalls ELSE RaceCalls)

\* a Date, the ISO string JSON.stringify writes for it, and an absent timestamp;
\* the clock is read as the index of the call
DateOf(ms) == [t |-> "Date", ms |-> ms]
IsoString(ms) == [t |-> "string", ms |-> ms]
NoTimestamp == [t |-> "undefined", ms |-> 0]

\* a constructor that files the text of the user under the assistant role
UserMessageMisfiled(content, c) ==
  [role |-> "assistant", content |-> content, call |-> c, timestamp |-> DateOf(c)]

\* { id, role, content, timestamp: new Date() }
UserMessage(content, c) ==
  [role |-> "user", content |-> content, call |-> c, timestamp |-> DateOf(c)]
AssistantMessage(content, c) ==
  [role |-> "assistant", content |-> content, call |-> c, timestamp |-> DateOf(c)]

\* values that are not arrays: undefined (a missing property), and a number
Undefined == [i \in {0} |-> "undefined"]
NumberValue == [i \in {0} |-> "number"]
IsArray(v) == 0 \notin DOMAIN v

\* JSON.stringify of a message: a Date becomes its ISO string, an undefined
\* property is left out
MessageToJson(m) ==
  [m EXCEPT !.timestamp = IF @.t = "Date" THEN IsoString(@.ms) ELSE NoTimestamp]

\* timestamp: m.timestamp ? new Date(m.timestamp) : undefined
MessageFromJson(m) ==
  [m EXCEPT !.timestamp = IF @.t = "string" THEN DateOf(@.ms) ELSE NoTimestamp]

NoRecord == [k |-> "none"]
\* localStorage holds no item, text that is not JSON, or the JSON text of null
NotJson == [k |-> "text"]
JsonNull == [k |-> "null"]

\* JSON.stringify of StoredChatData
StoredChatData(chatSessionId, msgs, sr, ps) ==
  [k |-> "json", chatSessionId |-> chatSessionId,
   messages |-> [i \in DOMAIN msgs |-> MessageToJson(msgs[i])],
   suggestedResponses |-> sr, productSuggestions |-> ps]

\* a call that has not been made
NoCall ==
  [pc |-> "none", aborted |-> FALSE, status |-> "", full |-> <<>>, buffer |-> <<>>,
   rsr |-> <<>>, rps |-> <<>>, outcome |-> "none"]

\* a call that has returned, and how; its locals are gone
Returned(outcome) == [NoCall EXCEPT !.pc = "done", !.outcome = outcome]

\* a call suspended at `await fetch(...)`
NewCall == [NoCall EXCEPT !.pc = "fetch", !.outcome = "pending"]

Suspended(c) == calls[c].pc \in {"fetch", "json", "read"}
\* the continuation of an aborted call is a queued microtask
AbortPending == \E c \in CallIds : Suspended(c) /\ calls[c].aborted

\* what the browser holds when the page loads, and the id generateId()
\* gives next: on a first visit nothing, on a later visit the ids and the
\* snapshot of the first
EmptyStores == [session |-> 0, chat |-> 0, nextId |-> 1, store |-> NoRecord]
ResumedStores ==
  [session |-> 1, chat |-> 2, nextId |-> 3,
   store |-> StoredChatData(2, <<UserMessage(<<"q">>, 0), AssistantMessage(<<"r">>, 0)>>,
                            <<"A">>, <<>>)]

\* no handler registered yet; `checkoutRequested` is not among the keys the
\* constructor of EventBridge creates
NoListeners == [e \in {"cartUpdated", "checkoutStarted"} |-> {}]

\* nothing has been handed to the embed script, the parser or the cart
NoPage ==
  /\ pendingMessageKey = <<>>
  /\ pendingMessage = <<>>
  /\ line = <<>>
  /\ parsed = NullEvent
  /\ listeners = NoListeners
  /\ cartItems = 0
  /\ cartState = 0
  /\ isCheckoutOpen = FALSE
  /\ invoked = {}
  /\ payment = [useExternalCheckout |-> FALSE]

\* the hook used on its own: no embed script, no ChatModal effects
NoWidget ==
  /\ isInitialized = FALSE
  /\ isModalOpen = TRUE
  /\ isHydrated = FALSE
  /\ isMinimizing = FALSE
  /\ minimizedKey = "none"

\* the callbacks of the caller: persistence.onSaveMessage returns, or throws;
\* the storage of the runtime: "ok", "absent" (there is no window) or "denied"
\* (every localStorage and sessionStorage operation throws)
NoThrow == [saveThrows |-> FALSE, storage |-> "ok"]
Configs == {NoThrow, [NoThrow EXCEPT !.saveThrows = TRUE]}

Init ==
  /\ mounted = FALSE
  /\ uncaught = FALSE
  /\ NoPage
  /\ NoWidget
  /\ config \in Configs
  /\ messages = <<>> /\ isLoading = FALSE /\ isStreaming = FALSE
  /\ streamingMessage = <<>> /\ error = NoError
  /\ suggestedResponses = <<>> /\ productSuggestions = <<>>
  /\ rendered = [isLoading |-> FALSE, isStreaming |-> FALSE]
  /\ dirty = FALSE /\ depsChanged = FALSE
  /\ sessionIdRef = 0 /\ chatSessionIdRef = 0 /\ abortControllerRef = 0
  /\ \E b \in {EmptyStores, ResumedStores} :
       /\ (b = ResumedStores => config = NoThrow)
       /\ localSessionId = b.session
       /\ sessionChatId = b.chat
       /\ localStore = b.store
       /\ nextId = b.nextId
  /\ calls = [c \in CallIds |-> NoCall]
  /\ nextCall = 1
  /\ reads = 0
  /\ callLimit = MaxCalls
  /\ newChats = 0
  /\ reports = <<>>

(* ---------------------------------------------------------------------- *)
(* Storage helpers                                                         *)
(* ---------------------------------------------------------------------- *)
\* a load that hands the parsed messages on as they are
loadCachedChatRaw(store) ==
  IF store.k = "json" /\ IsArray(store.messages) THEN store ELSE NoRecord

\* what an id helper returns: it threw, or it returned id, left stored under
\* its key and did or did not call generateId()
IdResult(threw, id, stored, fresh) ==
  [threw |-> threw, id |-> id, stored |-> stored, fresh |-> fresh]

\* getOrCreateSessionId, over localStorage; fresh is the next generateId()
getOrCreateSessionId(storage, stored, fresh) ==
  IF storage = "absent" THEN IdResult(FALSE, fresh, stored, TRUE)
  ELSE IF storage = "denied" THEN IdResult(TRUE, 0, stored, FALSE)
  ELSE IF stored = 0 THEN IdResult(FALSE, fresh, fresh, TRUE)
  ELSE IdResult(FALSE, stored, stored, FALSE)

\* getOrCreateChatSessionId, over sessionStorage
getOrCreateChatSessionId(storage, stored, fresh) ==
  IF storage = "absent" THEN IdResult(FALSE, fresh, stored, TRUE)
  ELSE IF storage = "denied" THEN IdResult(TRUE, 0, stored, FALSE)
  ELSE IF stored = 0 THEN IdResult(FALSE, fresh, fresh, TRUE)
  ELSE IdResult(FALSE, stored, stored, FALSE)

\* loadCachedChat: the parsed data with the timestamps revived, or null when
\* there is no item or anything in the try block throws (JSON.parse of text
\* that is not JSON, data.messages of null, .map of a value that is no array)
loadCachedChat(store) ==
  IF store.k = "json" /\ IsArray(store.messages)
  THEN [store EXCEPT !.messages = [i \in DOMAIN @ |-> MessageFromJson(@[i])]]
  ELSE NoRecord

\* saveChatToStorage
saveChatToStorage(chatSessionId, msgs, sr, ps) == StoredChatData(chatSessionId, msgs, sr, ps)

\* a clear that leaves the record in place
clearChatStorageSkipped == localStore

\* clearChatStorage
clearChatStorage == NoRecord

(* ---------------------------------------------------------------------- *)
(* Rendering. React batches the state updates of a task and renders before *)
(* the next task; the save effect runs after a render in which one of its  *)
(* dependencies was set.                                                   *)
(* ---------------------------------------------------------------------- *)
\* a save effect that writes nothing
SaveEffectSkipped(changed, chatSessionId, msgs, sr, ps, store) == store

\* the save effect
SaveEffect(changed, chatSessionId, msgs, sr, ps, store) ==
  IF changed /\ chatSessionId # 0 /\ Len(msgs) > 0 /\ config.storage # "absent"
  THEN saveChatToStorage(chatSessionId, msgs, sr, ps)
  ELSE store

\* the effect of ChatModal that reads the stored preference; the embed
\* passes no minimizedByDefaultPaths, the default [] is a new array in every
\* render, so the effect runs after every render of the modal
HydrateEffect(stored) ==
  /\ isModalOpen' = IF stored = "true" THEN FALSE
                    ELSE IF stored = "false" THEN TRUE
                    ELSE isModalOpen
  /\ isHydrated' = TRUE

\* the effects of the component that hosts the hook, after a render
HostEffects ==
  IF isInitialized
  THEN /\ HydrateEffect(minimizedKey)
       /\ UNCHANGED <<isInitialized, isMinimizing, minimizedKey>>
  ELSE UNCHANGED widgetVars

\* the render that ends the task of a network continuation or of the mount
\* effect
RenderAfter(changed, chatSessionId) ==
  /\ HostEffects
  /\ rendered' = [isLoading |-> isLoading', isStreaming |-> isStreaming']
  /\ localStore' = SaveEffect(changed, chatSessionId, messages', suggestedResponses',
                              productSuggestions', localStore)
  /\ dirty' = FALSE
  /\ depsChanged' = FALSE

\* the render that follows a task of the caller, once the microtasks it
\* queued have run
Render ==
  /\ mounted /\ dirty /\ ~AbortPending
  /\ HostEffects
  /\ rendered' = [isLoading |-> isLoading, isStreaming |-> isStreaming]
  /\ localStore' = SaveEffect(depsChanged, chatSessionIdRef, messages, suggestedResponses,
                              productSuggestions, localStore)
  /\ dirty' = FALSE
  /\ depsChanged' = FALSE
  /\ UNCHANGED <<mounted, uncaught, config, pageVars, pendingVars, engineVars, refVars, localSessionId, sessionChatId,
                 calls, nextCall, reads, callLimit, nextId, newChats>>
  /\ reports' = <<>>

(* ---------------------------------------------------------------------- *)
(* Mount: the effect that initializes the ids and loads the cached chat    *)
(* ---------------------------------------------------------------------- *)
Mount ==
  /\ ~mounted /\ ~uncaught
  /\ LET s == getOrCreateSessionId(config.storage, localSessionId, nextId)
         idAfter == IF s.fresh THEN nextId + 1 ELSE nextId
         ch == getOrCreateChatSessionId(config.storage, sessionChatId, idAfter)
         cached == loadCachedChat(localStore)
         restore == cached.k = "json" /\ cached.chatSessionId = ch.id
     IN IF s.threw \/ ch.threw
        THEN \* the effect ends at the helper that threw
             /\ uncaught' = TRUE
             /\ sessionIdRef' = IF s.threw THEN sessionIdRef ELSE s.id
             /\ localSessionId' = s.stored
             /\ nextId' = idAfter
             /\ UNCHANGED <<mounted, engineVars, rendered, dirty, depsChanged,
                            chatSessionIdRef, sessionChatId, localStore, widgetVars>>
        ELSE /\ mounted' = TRUE
             /\ sessionIdRef' = s.id
             /\ localSessionId' = s.stored
             /\ chatSessionIdRef' = ch.id
             /\ sessionChatId' = ch.stored
             /\ nextId' = IF ch.fresh THEN idAfter + 1 ELSE idAfter
             /\ IF restore
                THEN /\ messages' = cached.messages
                     /\ suggestedResponses' = cached.suggestedResponses
                     /\ productSuggestions' = IF cached.productSuggestions = Undefined
                                               THEN <<>>
                                               ELSE cached.productSuggestions
                ELSE UNCHANGED <<messages, suggestedResponses, productSuggestions>>
             /\ UNCHANGED <<isLoading, isStreaming, streamingMessage, error, uncaught>>
             /\ RenderAfter(restore, ch.id)
  /\ UNCHANGED <<config, pageVars, pendingVars, abortControllerRef, calls, nextCall, reads, callLimit, newChats>>
  /\ reports' = <<>>

(* ---------------------------------------------------------------------- *)
(* sendMessage                                                             *)
(* ---------------------------------------------------------------------- *)
Report(c, type, msg) == [call |-> c, type |-> type, msg |-> msg]

\* if (!content.trim() || isLoading || isStreaming) return;
\* isLoading and isStreaming are the values of the render that made the callback
SendGuard(content) == Trim(content) = <<>> \/ rendered.isLoading \/ rendered.isStreaming

\* abortControllerRef.current.abort(), when there is a controller
AbortCurrent(cs) ==
  IF abortControllerRef # 0
  THEN [cs EXCEPT ![abortControllerRef].aborted = TRUE]
  ELSE cs

\* setSuggestedResponses([]); setProductSuggestions([]);
ClearSuggestions == suggestedResponses' = <<>> /\ productSuggestions' = <<>>

\* the synchronous part of sendMessage, up to `await fetch(...)`
sendMessage(content) ==
  /\ mounted
  /\ IF SendGuard(content)
     THEN UNCHANGED <<engineVars, dirty, depsChanged, abortControllerRef, calls, nextCall>>
     ELSE /\ nextCall <= callLimit
          /\ messages' = Append(messages, UserMessage(Trim(content), nextCall))
          /\ isLoading' = TRUE
          /\ error' = NoError
          /\ streamingMessage' = <<>>
          /\ ClearSuggestions
          /\ dirty' = TRUE
          /\ depsChanged' = TRUE
          /\ nextCall' = nextCall + 1
          /\ UNCHANGED isStreaming
          /\ IF config.saveThrows
             THEN \* persistence.onSaveMessage throws before the try block
                  /\ calls' = [AbortCurrent(calls) EXCEPT ![nextCall] = Returned("rejected")]
                  /\ UNCHANGED abortControllerRef
             ELSE /\ calls' = [AbortCurrent(calls) EXCEPT ![nextCall] = NewCall]
                  /\ abortControllerRef' = nextCall
  /\ UNCHANGED <<widgetVars, mounted, uncaught, config, pageVars, rendered, sessionIdRef, chatSessionIdRef, storeVars,
                 reads, callLimit, nextId, newChats>>
  /\ reports' = <<>>

\* sendMessage called by the user of the hook: the input of the modal, a
\* quick reply, a suggested reply
SendMessage(content) == sendMessage(content) /\ UNCHANGED pendingVars

\* finally { ... }
Finally ==
  /\ isLoading' = FALSE
  /\ isStreaming' = FALSE
  /\ streamingMessage' = <<>>
  /\ abortControllerRef' = 0

\* an error handler that rolls the optimistic user message back
CatchFinallyRollback(c, msg, isTypeError, tracked) ==
  /\ error' = Err(msg)
  /\ reports' = tracked
  /\ calls' = [calls EXCEPT ![c] = Returned("error")]
  /\ Finally
  /\ messages' = SubSeq(messages, 1, Len(messages) - 1)
  /\ UNCHANGED <<suggestedResponses, productSuggestions>>

\* catch (err) { ... } finally { ... } for an error that is not an AbortError;
\* tracked is the reports made in the try block of the same task
CatchFinally(c, msg, isTypeError, tracked) ==
  LET alreadyTracked == Includes(msg, <<"HTTP">>) \/ Includes(msg, NoBodyMessage)
  IN /\ error' = Err(msg)
     /\ reports' = IF alreadyTracked THEN tracked
                   ELSE Append(tracked, Report(c, IF isTypeError THEN "network" ELSE "unknown", msg))
     /\ calls' = [calls EXCEPT ![c] = Returned("error")]
     /\ Finally
     /\ UNCHANGED <<messages, suggestedResponses, productSuggestions>>

\* an error message that ignores the detail field
ErrorMessageStatusOnly(body, status) == HttpMessage(status)

\* const errorMessage = errorData.detail || `HTTP ${response.status}`
ErrorMessageOf(body, status) ==
  IF body.has /\ body.detail # <<>> THEN body.detail ELSE HttpMessage(status)

\* an api error is tracked, then thrown
ThrowApiError(c, errorMessage) ==
  CatchFinally(c, errorMessage, FALSE, <<Report(c, "api", errorMessage)>>)

\* a response or a chunk arrives in a task of its own, after the microtasks
\* and the render of the task before
NetworkEvent(c) == mounted /\ ~dirty /\ ~AbortPending /\ ~calls[c].aborted

Frame == <<mounted, uncaught, config, pageVars, pendingVars, sessionIdRef, chatSessionIdRef, localSessionId, sessionChatId,
           nextCall, callLimit, nextId, newChats>>

\* fetch rejects with a TypeError
FetchFail(c) ==
  /\ NetworkEvent(c) /\ calls[c].pc = "fetch"
  /\ CatchFinally(c, NetworkMessage, TRUE, <<>>)
  /\ RenderAfter(FALSE, chatSessionIdRef)
  /\ UNCHANGED <<Frame, reads>>

\* the response has ok = false: the call awaits response.json()
FetchNotOk(c, status) ==
  /\ NetworkEvent(c) /\ calls[c].pc = "fetch"
  /\ calls' = [calls EXCEPT ![c].pc = "json", ![c].status = status]
  /\ UNCHANGED <<engineVars, rendered, dirty, depsChanged, localStore, abortControllerRef, Frame,
                 reads, widgetVars>>
  /\ reports' = <<>>

\* response.json() settles; a body that is not JSON gives {}
JsonResolve(c, body) ==
  /\ NetworkEvent(c) /\ calls[c].pc = "json"
  /\ ThrowApiError(c, ErrorMessageOf(body, calls[c].status))
  /\ RenderAfter(FALSE, chatSessionIdRef)
  /\ UNCHANGED <<Frame, reads>>

\* the response has ok = true and no body
FetchNoBody(c) ==
  /\ NetworkEvent(c) /\ calls[c].pc = "fetch"
  /\ CatchFinally(c, NoBodyMessage, FALSE, <<>>)
  /\ RenderAfter(FALSE, chatSessionIdRef)
  /\ UNCHANGED <<Frame, reads>>

\* the response has ok = true and a body: the call starts to read it
FetchOk(c) ==
  /\ NetworkEvent(c) /\ calls[c].pc = "fetch"
  /\ isLoading' = FALSE
  /\ isStreaming' = TRUE
  /\ calls' = [calls EXCEPT ![c].pc = "read"]
  /\ UNCHANGED <<messages, streamingMessage, error, suggestedResponses, productSuggestions,
                 abortControllerRef, Frame, reads>>
  /\ reports' = <<>>
  /\ RenderAfter(FALSE, chatSessionIdRef)

\* reader.read() delivers bytes: they are split into lines and each complete
\* line is parsed
ReadChunk(c, bytes) ==
  /\ NetworkEvent(c) /\ calls[c].pc = "read"
  /\ reads < MaxReads
  /\ reads' = reads + 1
  /\ LET lines == Split(calls[c].buffer \o bytes)
         acc == ProcessLines(SubSeq(lines, 1, Len(lines) - 1),
                             Locals(calls[c].full, calls[c].rsr, calls[c].rps, <<>>, FALSE))
     IN IF acc.error # <<>>
        THEN ThrowApiError(c, acc.error)
        ELSE /\ calls' = [calls EXCEPT ![c].buffer = lines[Len(lines)],
                                       ![c].full = acc.full,
                                       ![c].rsr = acc.rsr,
                                       ![c].rps = acc.rps]
             /\ streamingMessage' = IF acc.shown THEN acc.full ELSE streamingMessage
             /\ UNCHANGED <<messages, isLoading, isStreaming, error, suggestedResponses,
                            productSuggestions, abortControllerRef>>
             /\ reports' = <<>>
  /\ RenderAfter(FALSE, chatSessionIdRef)
  /\ UNCHANGED Frame

\* reader.read() rejects with a TypeError
ReadFail(c) ==
  /\ NetworkEvent(c) /\ calls[c].pc = "read"
  /\ CatchFinally(c, NetworkMessage, TRUE, <<>>)
  /\ RenderAfter(FALSE, chatSessionIdRef)
  /\ UNCHANGED <<Frame, reads>>

\* reader.read() reports the end of the body: the rest of the buffer is
\* parsed and the assistant turn is committed
ReadDone(c) ==
  /\ NetworkEvent(c) /\ calls[c].pc = "read"
  /\ LET acc == ProcessRemaining(calls[c].buffer,
                                 Locals(calls[c].full, calls[c].rsr, calls[c].rps, <<>>, FALSE))
         turn == ResolveTurn(acc.full, acc.rsr, acc.rps)
     IN /\ IF acc.full # <<>>
           THEN /\ messages' = Append(messages, AssistantMessage(turn.content, c))
                /\ suggestedResponses' =
                     IF turn.suggestions # <<>> THEN turn.suggestions ELSE suggestedResponses
                /\ productSuggestions' =
                     IF turn.products # <<>> THEN turn.products ELSE productSuggestions
           ELSE UNCHANGED <<messages, suggestedResponses, productSuggestions>>
        /\ calls' = [calls EXCEPT ![c] = Returned(IF acc.full # <<>> THEN "committed" ELSE "empty")]
        /\ Finally
        /\ UNCHANGED <<error, Frame, reads>>
        /\ reports' = <<>>
        /\ RenderAfter(acc.full # <<>>, chatSessionIdRef)

\* the continuation of a call whose controller was aborted, a microtask of
\* the task that aborted it: fetch and reader.read() reject with an
\* AbortError, on which the catch block returns; response.json() rejects
\* too, but .catch(() => ({})) turns that into {}
AbortContinue(c) ==
  /\ mounted /\ Suspended(c) /\ calls[c].aborted
  /\ IF calls[c].pc = "json"
     THEN ThrowApiError(c, ErrorMessageOf([has |-> FALSE, detail |-> <<>>], calls[c].status))
     ELSE /\ calls' = [calls EXCEPT ![c] = Returned("aborted")]
          /\ Finally
          /\ UNCHANGED <<messages, error, suggestedResponses, productSuggestions>>
          /\ reports' = <<>>
  /\ dirty' = TRUE
  /\ UNCHANGED <<rendered, depsChanged, localStore, Frame, reads, widgetVars>>

(* ---------------------------------------------------------------------- *)
(* clearMessages and startNewChat                                          *)
(* ---------------------------------------------------------------------- *)
\* the body of clearMessages
ClearState ==
  /\ messages' = <<>>
  /\ error' = NoError
  /\ streamingMessage' = <<>>
  /\ suggestedResponses' = <<>>
  /\ productSuggestions' = <<>>
  /\ localStore' = clearChatStorage
  /\ dirty' = TRUE
  /\ depsChanged' = TRUE
  /\ UNCHANGED <<isLoading, isStreaming>>

clearMessages ==
  /\ mounted
  /\ ClearState
  /\ UNCHANGED <<widgetVars, mounted, uncaught, config, pageVars, pendingVars, rendered, refVars, localSessionId, sessionChatId,
                 calls, nextCall, reads, callLimit, nextId, newChats>>
  /\ reports' = <<>>

\* an id renewal that hands the current id out again
createNewChatSessionIdReused == chatSessionIdRef

\* createNewChatSessionId
createNewChatSessionId == nextId

startNewChat ==
  /\ mounted
  /\ newChats < MaxNewChats
  /\ calls' = AbortCurrent(calls)
  /\ ClearState
  /\ chatSessionIdRef' = createNewChatSessionId
  /\ sessionChatId' = IF config.storage = "absent" THEN sessionChatId
                      ELSE createNewChatSessionId
  /\ nextId' = nextId + 1
  /\ newChats' = newChats + 1
  /\ UNCHANGED <<widgetVars, mounted, uncaught, config, pageVars, pendingVars, rendered, sessionIdRef, abortControllerRef,
                 localSessionId, nextCall, reads, callLimit>>
  /\ reports' = <<>>

(* ---------------------------------------------------------------------- *)
(* The specification                                                       *)
(* ---------------------------------------------------------------------- *)
Next ==
  \/ Mount
  \/ Render
  \/ \E content \in UserTexts : SendMessage(content)
  \/ clearMessages
  \/ startNewChat
  \/ \E c \in CallIds : FetchFail(c)
  \/ \E c \in CallIds, status \in Statuses : FetchNotOk(c, status)
  \/ \E c \in CallIds, body \in ErrorBodies : JsonResolve(c, body)
  \/ \E c \in CallIds : FetchNoBody(c)
  \/ \E c \in CallIds : FetchOk(c)
  \/ \E c \in CallIds, bytes \in ReadChunks : ReadChunk(c, bytes)
  \/ \E c \in CallIds : ReadFail(c)
  \/ \E c \in CallIds : ReadDone(c)
  \/ \E c \in CallIds : AbortContinue(c)

Spec == Init /\ [][Next]_vars

(* ---------------------------------------------------------------------- *)
(* Overlapping calls: a caller with well-behaved callbacks and a server    *)
(* that always streams a reply, with room for one more call                *)
(* ---------------------------------------------------------------------- *)
InitRace ==
  /\ mounted = FALSE
  /\ uncaught = FALSE
  /\ NoPage
  /\ NoWidget
  /\ config = NoThrow
  /\ messages = <<>> /\ isLoading = FALSE /\ isStreaming = FALSE
  /\ streamingMessage = <<>> /\ error = NoError
  /\ suggestedResponses = <<>> /\ productSuggestions = <<>>
  /\ rendered = [isLoading |-> FALSE, isStreaming |-> FALSE]
  /\ dirty = FALSE /\ depsChanged = FALSE
  /\ sessionIdRef = 0 /\ chatSessionIdRef = 0 /\ abortControllerRef = 0
  /\ localSessionId = EmptyStores.session
  /\ sessionChatId = EmptyStores.chat
  /\ localStore = EmptyStores.store
  /\ calls = [c \in CallIds |-> NoCall]
  /\ nextCall = 1
  /\ reads = 0
  /\ callLimit = RaceCalls
  /\ nextId = EmptyStores.nextId
  /\ newChats = 0
  /\ reports = <<>>

\* the reply of that server: a text chunk and its suggested replies
ReplyChunks ==
  { <<Pfx("data: "), Json(ChunkObj(<<"x">>)), NL,
      Pfx("data: "), Json(SuggestedObj(<<"A">>)), NL>> }

NextRace ==
  \/ Mount
  \/ Render
  \/ \E content \in UserTexts : SendMessage(content)
  \/ clearMessages
  \/ startNewChat
  \/ \E c \in CallIds : FetchOk(c)
  \/ \E c \in CallIds, bytes \in ReplyChunks : ReadChunk(c, bytes)
  \/ \E c \in CallIds : ReadDone(c)
  \/ \E c \in CallIds : AbortContinue(c)

SpecRace == InitRace /\ [][NextRace]_vars

(* ---------------------------------------------------------------------- *)
(* One call and the bodies a server can stream to it, in either frame      *)
(* format, with inline JSON islands in the text                            *)
(* ---------------------------------------------------------------------- *)
\* the text deltas of a reply
Deltas == { <<"x">>, <<" ">>, <<"y", FencePS>>, <<TypeFirstPS>>, <<BareSR, BarePS>> }

\* data: {"chunk": t} and 0:"t"
DataFrame(t) == <<Pfx("data: "), Json(ChunkObj(t))>>
IndexedFrame(t) == <<Pfx("0:"), Json(JStr(t))>>
\* data: {"done": true} and d:{}
DataDone == <<Pfx("data: "), Json(DoneObj)>>
IndexedDone == <<Pfx("d:"), Json(EmptyObj)>>

StreamChunks ==
  { DataFrame(t) \o <<NL>> : t \in Deltas }
    \cup { IndexedFrame(t) \o <<NL>> : t \in Deltas }
    \cup { DataFrame(<<"z">>), IndexedFrame(<<"z">>) }
    \cup { <<Pfx("data: "), Json(SuggestedObj(<<"A">>)), NL>>,
           DataDone \o <<NL>>, IndexedDone \o <<NL>> }

InitStream ==
  /\ mounted = FALSE
  /\ uncaught = FALSE
  /\ NoPage
  /\ NoWidget
  /\ config = NoThrow
  /\ messages = <<>> /\ isLoading = FALSE /\ isStreaming = FALSE
  /\ streamingMessage = <<>> /\ error = NoError
  /\ suggestedResponses = <<>> /\ productSuggestions = <<>>
  /\ rendered = [isLoading |-> FALSE, isStreaming |-> FALSE]
  /\ dirty = FALSE /\ depsChanged = FALSE
  /\ sessionIdRef = 0 /\ chatSessionIdRef = 0 /\ abortControllerRef = 0
  /\ localSessionId = EmptyStores.session
  /\ sessionChatId = EmptyStores.chat
  /\ localStore = EmptyStores.store
  /\ calls = [c \in CallIds |-> NoCall]
  /\ nextCall = 1
  /\ reads = 0
  /\ callLimit = nextCall
  /\ nextId = EmptyStores.nextId
  /\ newChats = 0
  /\ reports = <<>>

NextStream ==
  \/ Mount
  \/ Render
  \/ \E content \in UserTexts : SendMessage(content)
  \/ \E c \in CallIds : FetchOk(c)
  \/ \E c \in CallIds, bytes \in StreamChunks : ReadChunk(c, bytes)
  \/ \E c \in CallIds : ReadDone(c)

SpecStream == InitStream /\ [][NextStream]_vars

(* ---------------------------------------------------------------------- *)
(* The embedded widget: ChatWidget.init / open / close of the embed script  *)
(* and the ChatModal that hosts the hook                                    *)
(* ---------------------------------------------------------------------- *)
\* what a task of the host page or of the modal leaves alone in the hook
hookVars == <<mounted, uncaught, config, pageVars, engineVars, rendered, dirty, depsChanged, refVars,
              storeVars, calls, nextCall, reads, callLimit, nextId, newChats>>

\* a task of the host page starts once the renders and microtasks of the
\* task before are done
HostTask == ~dirty /\ ~AbortPending

\* init(): createRoot(...).render(...) schedules the first render of the
\* modal, isInitialized = true
init ==
  /\ ~isInitialized /\ ~mounted
  /\ isInitialized' = TRUE
  /\ UNCHANGED <<isModalOpen, isHydrated, isMinimizing, minimizedKey, hookVars, pendingVars>>
  /\ reports' = <<>>

\* handleStorageChange of ChatModal, subscribed once the modal has mounted:
\* if (stored !== 'true' && !isModalOpen && isHydrated) setIsModalOpen(true);
\* the render that follows runs the hydrate effect
handleStorageChange(stored) ==
  IF mounted /\ stored # "true" /\ ~isModalOpen /\ isHydrated
  THEN HydrateEffect(stored)
  ELSE UNCHANGED <<isModalOpen, isHydrated>>

\* the messages the host page passes to open(): none, or a text
OpenMessages == { <<>>, <<"order">> }

\* open(message): the listener of ChatModal runs on both storage events and
\* reads the -minimized key on each
open(message) ==
  /\ isInitialized /\ HostTask
  /\ minimizedKey' = "false"
  /\ handleStorageChange("false")
  /\ pendingMessageKey' = IF message # <<>> THEN message ELSE pendingMessageKey
  /\ UNCHANGED <<isInitialized, isMinimizing, hookVars, pendingMessage>>
  /\ reports' = <<>>

\* the pending-message effect of ChatModal: it sends the pendingMessage of
\* the ChatModalProvider context and clears it
PendingMessageEffect ==
  /\ mounted /\ HostTask
  /\ pendingMessage # <<>> /\ isModalOpen /\ isHydrated /\ ~isLoading /\ ~isStreaming
  /\ sendMessage(pendingMessage)
  /\ pendingMessage' = <<>>
  /\ UNCHANGED pendingMessageKey

\* close()
close ==
  /\ isInitialized /\ HostTask
  /\ minimizedKey' = "true"
  /\ handleStorageChange("true")
  /\ UNCHANGED <<isInitialized, isMinimizing, hookVars, pendingVars>>
  /\ reports' = <<>>

\* handleMinimize: the minimize button of the open modal
handleMinimize ==
  /\ mounted /\ HostTask /\ isModalOpen /\ ~isMinimizing
  /\ isMinimizing' = TRUE
  /\ HydrateEffect(minimizedKey)
  /\ UNCHANGED <<isInitialized, minimizedKey, hookVars, pendingVars>>
  /\ reports' = <<>>

\* the timer of handleMinimize, 300 ms later
MinimizeTimeout ==
  /\ mounted /\ HostTask /\ isMinimizing
  /\ isModalOpen' = FALSE
  /\ isMinimizing' = FALSE
  /\ minimizedKey' = "true"
  /\ UNCHANGED <<isInitialized, isHydrated, hookVars, pendingVars>>
  /\ reports' = <<>>

\* handleReopen: the floating button of the minimized modal
handleReopen ==
  /\ mounted /\ HostTask /\ ~isModalOpen
  /\ isModalOpen' = TRUE
  /\ minimizedKey' = "false"
  /\ UNCHANGED <<isInitialized, isHydrated, isMinimizing, hookVars, pendingVars>>
  /\ reports' = <<>>

InitWidget ==
  /\ mounted = FALSE
  /\ uncaught = FALSE
  /\ NoPage
  /\ isInitialized = FALSE
  /\ isModalOpen = TRUE
  /\ isHydrated = FALSE
  /\ isMinimizing = FALSE
  /\ minimizedKey \in {"none", "true", "false"}
  /\ config = NoThrow
  /\ messages = <<>> /\ isLoading = FALSE /\ isStreaming = FALSE
  /\ streamingMessage = <<>> /\ error = NoError
  /\ suggestedResponses = <<>> /\ productSuggestions = <<>>
  /\ rendered = [isLoading |-> FALSE, isStreaming |-> FALSE]
  /\ dirty = FALSE /\ depsChanged = FALSE
  /\ sessionIdRef = 0 /\ chatSessionIdRef = 0 /\ abortControllerRef = 0
  /\ localSessionId = EmptyStores.session
  /\ sessionChatId = EmptyStores.chat
  /\ localStore = EmptyStores.store
  /\ calls = [c \in CallIds |-> NoCall]
  /\ nextCall = 1
  /\ reads = 0
  /\ callLimit = MaxCalls
  /\ nextId = EmptyStores.nextId
  /\ newChats = 0
  /\ reports = <<>>

NextWidget ==
  \/ init
  \/ \E message \in OpenMessages : open(message)
  \/ close
  \/ handleMinimize
  \/ MinimizeTimeout
  \/ handleReopen
  \/ (isInitialized /\ Mount)
  \/ Render
  \/ \E content \in UserTexts : SendMessage(content)
  \/ \E c \in CallIds : FetchOk(c)
  \/ \E c \in CallIds, bytes \in ReplyChunks : ReadChunk(c, bytes)
  \/ \E c \in CallIds : ReadDone(c)
  \/ \E c \in CallIds : AbortContinue(c)

SpecWidget == InitWidget /\ [][NextWidget]_vars

\* React renders after every state update and runs the effects of the
\* render, the server answers every request and ends every stream, and a
\* timer fires; what the user and the host page do is up to them
SpecWidgetLive ==
  /\ SpecWidget
  /\ WF_vars(isInitialized /\ Mount)
  /\ WF_vars(Render)
  /\ WF_vars(PendingMessageEffect)
  /\ WF_vars(MinimizeTimeout)
  /\ \A c \in CallIds :
       WF_vars(FetchOk(c)) /\ WF_vars(ReadDone(c)) /\ WF_vars(AbortContinue(c))

(* ---------------------------------------------------------------------- *)
(* Runtimes with and without storage: a browser, a runtime with no window, *)
(* a browser that denies access to localStorage and sessionStorage         *)
(* ---------------------------------------------------------------------- *)
StorageModes == {"ok", "absent", "denied"}

InitIds ==
  /\ mounted = FALSE
  /\ uncaught = FALSE
  /\ NoPage
  /\ NoWidget
  /\ config \in { [NoThrow EXCEPT !.storage = m] : m \in StorageModes }
  /\ messages = <<>> /\ isLoading = FALSE /\ isStreaming = FALSE
  /\ streamingMessage = <<>> /\ error = NoError
  /\ suggestedResponses = <<>> /\ productSuggestions = <<>>
  /\ rendered = [isLoading |-> FALSE, isStreaming |-> FALSE]
  /\ dirty = FALSE /\ depsChanged = FALSE
  /\ sessionIdRef = 0 /\ chatSessionIdRef = 0 /\ abortControllerRef = 0
  /\ \E b \in {EmptyStores, ResumedStores} :
       /\ (config.storage = "absent" => b = EmptyStores)
       /\ localSessionId = b.session
       /\ sessionChatId = b.chat
       /\ localStore = b.store
       /\ nextId = b.nextId
  /\ calls = [c \in CallIds |-> NoCall]
  /\ nextCall = 1
  /\ reads = 0
  /\ callLimit = MaxCalls
  /\ newChats = 0
  /\ reports = <<>>

NextIds == NextRace

SpecIds == InitIds /\ [][NextIds]_vars

(* ---------------------------------------------------------------------- *)
(* Page loads over a stored value: what an earlier page left in            *)
(* localStorage and sessionStorage, then the mount effect                  *)
(* ---------------------------------------------------------------------- *)
\* a message of an earlier page, made before timestamps were kept
Untimed(m) == [m EXCEPT !.timestamp = NoTimestamp]

\* snapshots an engine can hold when its save effect runs
Snapshots ==
  { [messages |-> ms, suggestedResponses |-> sr, productSuggestions |-> ps] :
      ms \in { <<UserMessage(<<"q">>, 0)>>,
               <<UserMessage(<<"q">>, 0), AssistantMessage(<<"r">>, 0)>>,
               <<Untimed(UserMessage(<<"q">>, 0)), Untimed(AssistantMessage(<<"r">>, 0))>>,
               <<UserMessage(<<"q">>, 0), AssistantMessage(<<"r">>, 0),
                 UserMessage(<<"b">>, 0)>> },
      sr \in { <<>>, <<"A">> },
      ps \in { <<>>, <<"p">> } }

\* the conversation ids of earlier pages
StoredChatIds == {2, 3}

\* what saveChatToStorage left for such a snapshot
SavedRecords ==
  { saveChatToStorage(c, s.messages, s.suggestedResponses, s.productSuggestions) :
      c \in StoredChatIds, s \in Snapshots }

\* stored values no save produced: text that is not JSON, null, and records
\* whose messages or suggestedResponses are missing or of the wrong type
CorruptRecords ==
  {NotJson, JsonNull}
    \cup { [r EXCEPT !.messages = v] : r \in SavedRecords, v \in {Undefined, NumberValue} }
    \cup { [r EXCEPT !.suggestedResponses = v] :
             r \in SavedRecords, v \in {Undefined, NumberValue} }

InitStore ==
  /\ mounted = FALSE
  /\ uncaught = FALSE
  /\ NoPage
  /\ NoWidget
  /\ config = NoThrow
  /\ messages = <<>> /\ isLoading = FALSE /\ isStreaming = FALSE
  /\ streamingMessage = <<>> /\ error = NoError
  /\ suggestedResponses = <<>> /\ productSuggestions = <<>>
  /\ rendered = [isLoading |-> FALSE, isStreaming |-> FALSE]
  /\ dirty = FALSE /\ depsChanged = FALSE
  /\ sessionIdRef = 0 /\ chatSessionIdRef = 0 /\ abortControllerRef = 0
  /\ localSessionId = 1
  /\ sessionChatId \in {0} \cup StoredChatIds
  /\ localStore \in {NoRecord} \cup SavedRecords \cup CorruptRecords
  /\ calls = [c \in CallIds |-> NoCall]
  /\ nextCall = 1
  /\ reads = 0
  /\ callLimit = MaxCalls
  /\ nextId = 4
  /\ newChats = 0
  /\ reports = <<>>

NextStore == Mount

SpecStore == InitStore /\ [][NextStore]_vars

(* ---------------------------------------------------------------------- *)
(* Properties                                                              *)
(* ---------------------------------------------------------------------- *)
\* call c awaits its response or reads its stream, and is not cancelled
InFlight(c) == Suspended(c) /\ ~calls[c].aborted

\* the assistant messages that call c has committed to a message list
AssistantCount(ms, c) ==
  Cardinality({i \in 1..Len(ms) : ms[i].role = "assistant" /\ ms[i].call = c})

\* sendMessage(content), called now, cancels call a and appends its user
\* message to the list
SendSupersedes(content, a) ==
  ENABLED ( /\ SendMessage(content)
            /\ calls'[a].aborted
            /\ messages' = Append(messages, UserMessage(Trim(content), nextCall)) )

\* C1: in every state where an earlier call is in flight, sendMessage with
\* non-blank text cancels that call and appends the user message of the new
\* call to the list; and a cancelled call never commits an assistant message.
C1_SupersedingSendCancels ==
  /\ [](\A content \in UserTexts, a \in CallIds :
          (mounted /\ Trim(content) # <<>> /\ InFlight(a) /\ nextCall <= callLimit)
            => SendSupersedes(content, a))
  /\ [][ \A a \in CallIds :
           calls[a].aborted => AssistantCount(messages', a) <= AssistantCount(messages, a)
      ]_vars

\* C2: sendMessage changes nothing and issues no request when the text is
\* blank or the engine is sending or streaming.
C2_SendIsNoOpWhenBlankOrBusy ==
  [][ \A content \in UserTexts :
        (SendMessage(content) /\ (Trim(content) = <<>> \/ isLoading \/ isStreaming))
          => UNCHANGED <<messages, suggestedResponses, productSuggestions, error,
                         isLoading, isStreaming, localStore, calls>>
    ]_vars

\* C3: at most one chat request that is not cancelled is in flight.
C3_AtMostOneInFlight == Cardinality({c \in CallIds : InFlight(c)}) <= 1

\* the text call c has accumulated once the rest of its buffer is parsed
DeliveredText(c) ==
  ProcessRemaining(calls[c].buffer,
                   Locals(calls[c].full, calls[c].rsr, calls[c].rps, <<>>, FALSE)).full

Idle == ~isLoading /\ ~isStreaming

\* C4 (as claimed): whenever a response stream ends without error and
\* without cancellation, also when it delivered no text, exactly one
\* assistant message is appended for the call and the engine is idle.
C4_StreamEndCommitsOne ==
  [][ \A c \in CallIds :
        ReadDone(c)
          => /\ messages' = Append(messages, messages'[Len(messages')])
             /\ messages'[Len(messages')].role = "assistant"
             /\ messages'[Len(messages')].call = c
             /\ Idle'
    ]_vars

\* C4 (amended): when a response stream that delivered text ends without
\* error and without cancellation, exactly one assistant message is appended
\* for the call, with the accumulated text when it holds no JSON island, the
\* suggestions received in SSE frames are committed with it, and the engine
\* is idle; when the stream delivered no text, no message is appended and the
\* suggestions stay as they were, and the engine is idle.
C4_TextStreamEndCommitsOne ==
  [][ \A c \in CallIds :
        ReadDone(c)
          => /\ Idle' /\ streamingMessage' = <<>>
             /\ AssistantCount(messages', c) <= 1
             /\ IF DeliveredText(c) # <<>>
                THEN /\ messages' = Append(messages, messages'[Len(messages')])
                     /\ messages'[Len(messages')].role = "assistant"
                     /\ messages'[Len(messages')].call = c
                     /\ (\A i \in 1..Len(DeliveredText(c)) : ~HasBrace(DeliveredText(c)[i]))
                          => messages'[Len(messages')].content = DeliveredText(c)
                     /\ (calls[c].buffer = <<>> /\ calls[c].rsr # <<>>)
                          => suggestedResponses' = calls[c].rsr
                     /\ (calls[c].buffer = <<>> /\ calls[c].rps # <<>>)
                          => productSuggestions' = calls[c].rps
                ELSE UNCHANGED <<messages, suggestedResponses, productSuggestions>>
    ]_vars

\* a stream with text and a suggested_responses frame has ended and its turn
\* is committed
C4_Witness ==
  \E c \in CallIds :
    /\ calls[c].outcome = "committed"
    /\ messages # <<>>
    /\ messages[Len(messages)].role = "assistant"
    /\ messages[Len(messages)].call = c
    /\ suggestedResponses = <<"A">>
    /\ Idle

\* C5: when a call is cancelled, at whatever suspension point, its
\* continuation commits no assistant message, resets the streaming draft,
\* leaves the engine idle and leaves the error null.
C5_CancelIsSilent ==
  [][ \A c \in CallIds :
        AbortContinue(c)
          => /\ messages' = messages
             /\ streamingMessage' = <<>>
             /\ Idle'
             /\ error' = NoError
    ]_vars

\* call c fails in this step, and not through a cancellation
FailureStep(c) ==
  /\ Suspended(c) /\ ~calls[c].aborted
  /\ calls'[c].outcome = "error"

\* C6: a failure of sendMessage other than a cancellation removes no
\* message and appends none, so the user message of the call stays and no
\* assistant message follows it; the draft is discarded and the engine is
\* idle with a non-empty error message.
C6_FailureKeepsHistory ==
  [][ \A c \in CallIds :
        FailureStep(c)
          => /\ messages' = messages
             /\ AssistantCount(messages', c) = 0
             /\ streamingMessage' = <<>>
             /\ Idle'
             /\ error'.set /\ error'.msg # <<>>
    ]_vars

\* an error frame in the stream has failed a call that followed earlier
\* messages: its user message is the last of the list
C6_Witness ==
  \E c \in CallIds :
    /\ calls[c].outcome = "error"
    /\ error = Err(<<"boom">>)
    /\ reports # <<>> /\ reports[1] = Report(c, "api", <<"boom">>)
    /\ Len(messages) >= 2
    /\ messages[Len(messages)] = UserMessage(<<"b">>, c)
    /\ Idle

\* the api report of call c with message m is among the reports of this step
ApiReported(c, m) ==
  \E i \in 1..Len(reports') : reports'[i] = Report(c, "api", m)

C8_SendNeverRejects == \A c \in CallIds : calls[c].outcome # "rejected"

\* load(conversationId): the stored snapshot when it is one of that
\* conversation, else nothing
CacheLoad(store, chatSessionId) ==
  IF loadCachedChat(store).k = "json" /\ loadCachedChat(store).chatSessionId = chatSessionId
  THEN loadCachedChat(store)
  ELSE NoRecord

\* startNewChat runs while a snapshot is persisted
StartNewChatStep == startNewChat /\ localStore.k = "json"

C10_ClearKeepsIds ==
  [][ clearMessages
        => /\ messages' = <<>> /\ suggestedResponses' = <<>> /\ productSuggestions' = <<>>
           /\ streamingMessage' = <<>>
           /\ error' = NoError
           /\ localStore' = NoRecord
           /\ UNCHANGED <<chatSessionIdRef, sessionIdRef, sessionChatId, localSessionId>>
    ]_vars

\* the only call committed a turn, which the render after it persisted, and
\* since then nothing but clearMessages has changed the state: the snapshot
\* is gone and the ids are those of the start
C10_Witness ==
  /\ nextCall = 2
  /\ calls[1].outcome = "committed"
  /\ newChats = 0
  /\ dirty /\ depsChanged
  /\ messages = <<>>
  /\ localStore = NoRecord
  /\ sessionIdRef = ResumedStores.session
  /\ chatSessionIdRef = ResumedStores.chat
  /\ sessionChatId = ResumedStores.chat

(* ---------------------------------------------------------------------- *)
(* Restoring a stored conversation                                         *)
(* ---------------------------------------------------------------------- *)
\* C11: when the stored value is what saveChatToStorage wrote for a snapshot
\* under conversation id c, the mount effect of a page whose conversation id
\* is c restores that snapshot (the same messages in the same order, the same
\* suggested replies, the same product suggestions), and the mount effect of
\* a page with another conversation id restores nothing: the state stays
\* empty.
C11_SaveThenInitRestores ==
  [][ \A c \in StoredChatIds, s \in Snapshots :
        ( Mount
          /\ localStore = saveChatToStorage(c, s.messages, s.suggestedResponses,
                                            s.productSuggestions) )
        => IF chatSessionIdRef' = c
           THEN /\ messages' = s.messages
                /\ suggestedResponses' = s.suggestedResponses
                /\ productSuggestions' = s.productSuggestions
           ELSE /\ messages' = <<>>
                /\ suggestedResponses' = <<>>
                /\ productSuggestions' = <<>> ]_vars

\* a page that restored a whole turn, its timestamps Dates again
C11_Witness ==
  /\ mounted
  /\ chatSessionIdRef = 2
  /\ messages = <<UserMessage(<<"q">>, 0), AssistantMessage(<<"r">>, 0)>>
  /\ suggestedResponses = <<"A">>
  /\ productSuggestions = <<"p">>
  /\ localStore = saveChatToStorage(2, messages, suggestedResponses, productSuggestions)

\* C12: whatever corrupt value is stored (text that is not JSON, null, a
\* record whose messages or suggestedResponses are missing or of the wrong
\* type), the mount effect leaves the state it leaves when nothing is stored:
\* no messages, no suggested replies, no product suggestions.
C12_CorruptIsAbsent ==
  [][ (Mount /\ localStore \in CorruptRecords)
      => /\ messages' = <<>>
         /\ suggestedResponses' = <<>>
         /\ productSuggestions' = <<>> ]_vars

(* ---------------------------------------------------------------------- *)
(* Ids without a store                                                     *)
(* ---------------------------------------------------------------------- *)
\* C13: when the store is unavailable, getOrCreateSessionId,
\* getOrCreateChatSessionId and createNewChatSessionId raise nothing and hand
\* out an id: no exception escapes the mount effect, and a mounted hook holds
\* a session id and a conversation id.
C13_IdsWithoutStore ==
  config.storage # "ok"
  => /\ ~uncaught
     /\ (mounted => sessionIdRef # 0 /\ chatSessionIdRef # 0)

(* ---------------------------------------------------------------------- *)
(* The shape of the message list and of the suggestions                    *)
(* ---------------------------------------------------------------------- *)
\* C14: in every reachable state each assistant message of the list has the
\* user message of the call that produced it somewhere before it; the list
\* never starts with an assistant message.
C14_AssistantFollowsItsUser ==
  \A i \in 1..Len(messages) :
    messages[i].role = "assistant"
    => \E j \in 1..(i - 1) :
         messages[j].role = "user" /\ messages[j].call = messages[i].call

\* C15: while the hook is loading or streaming, suggestedResponses and
\* productSuggestions are empty, whatever suggestion frames the stream has
\* delivered; during a turn they become non-empty only in the step that
\* commits the assistant message.
C15_NoSuggestionsWhileBusy ==
  /\ []((isLoading \/ isStreaming)
         => suggestedResponses = <<>> /\ productSuggestions = <<>>)
  /\ [][ ( (isLoading \/ isStreaming)
           /\ (suggestedResponses' # <<>> \/ productSuggestions' # <<>>) )
         => \E c \in CallIds : /\ calls[c].outcome # "committed"
                                /\ calls'[c].outcome = "committed" ]_vars

(* ---------------------------------------------------------------------- *)
(* Streams                                                                 *)
(* ---------------------------------------------------------------------- *)
HasProductIsland(text) ==
  \E i \in 1..Len(text) : text[i] \in {FencePS, BarePS, TypeFirstPS}

\* the text without its product_suggestions islands
RECURSIVE WithoutProductIslands(_)
WithoutProductIslands(text) ==
  IF text = <<>> THEN <<>>
  ELSE IF Head(text) \in {FencePS, BarePS, TypeFirstPS}
       THEN WithoutProductIslands(Tail(text))
       ELSE <<Head(text)>> \o WithoutProductIslands(Tail(text))

\* C16: when the stream delivered a non-empty suggested_responses frame and
\* no product_suggestions frame, and the text holds a product_suggestions
\* island, the committed turn has the suggested replies of the frame and the
\* products of the island, the product island is gone from the content and
\* everything else, suggested_responses islands included, is left in it.
C16_SuggestionsPerCategory ==
  [][ \A c \in CallIds :
        ( ReadDone(c) /\ calls[c].buffer = <<>>
          /\ calls[c].rsr # <<>> /\ calls[c].rps = <<>>
          /\ HasProductIsland(calls[c].full) )
        => /\ suggestedResponses' = calls[c].rsr
           /\ productSuggestions' = <<"p1">>
           /\ messages'[Len(messages')].content
                = Trim(WithoutProductIslands(calls[c].full)) ]_vars

\* the replies of at most MaxDeltas text deltas
DeltaSeqs == UNION { [1..n -> Deltas] : n \in 0..MaxDeltas }

\* a reply as data: {"chunk": t} lines closed by data: {"done": true}
RECURSIVE DataBody(_)
DataBody(ds) ==
  IF ds = <<>> THEN DataDone \o <<NL>>
  ELSE DataFrame(Head(ds)) \o <<NL>> \o DataBody(Tail(ds))

\* the same reply as 0:"t" lines closed by d:{}
RECURSIVE IndexedBody(_)
IndexedBody(ds) ==
  IF ds = <<>> THEN IndexedDone \o <<NL>>
  ELSE IndexedFrame(Head(ds)) \o <<NL>> \o IndexedBody(Tail(ds))

\* what call c commits when its body goes on with bytes and then ends
TurnAfter(c, bytes) ==
  LET lines == Split(calls[c].buffer \o bytes)
      acc == ProcessLines(SubSeq(lines, 1, Len(lines) - 1),
                          Locals(calls[c].full, calls[c].rsr, calls[c].rps, <<>>, FALSE))
      fin == ProcessRemaining(lines[Len(lines)], acc)
      turn == ResolveTurn(fin.full, fin.rsr, fin.rps)
  IN [failed |-> acc.error # <<>>,
      committed |-> acc.error = <<>> /\ fin.full # <<>>,
      content |-> IF acc.error = <<>> /\ fin.full # <<>> THEN turn.content ELSE <<>>]

\* C17: for every sequence of text deltas, a call that reads it as
\* data: {"chunk": t} lines closed by data: {"done": true} and a call that
\* reads it as 0:"t" lines closed by d:{} commit an assistant message with
\* the same content (or both commit none).
C17_FramingsCommitTheSame ==
  \A c \in CallIds :
    (calls[c].pc = "read" /\ calls[c].buffer = <<>>)
    => \A ds \in DeltaSeqs : TurnAfter(c, DataBody(ds)) = TurnAfter(c, IndexedBody(ds))

\* a call between two lines of its body, with text received, to which a
\* further delta makes a difference
C17_Witness ==
  \E c \in CallIds :
    /\ calls[c].pc = "read" /\ calls[c].buffer = <<>>
    /\ calls[c].full = <<"x">>
    /\ TurnAfter(c, IndexedBody(<<(<<" ">>), (<<"x">>)>>)).content = <<"x", " ", "x">>
    /\ TurnAfter(c, DataBody(<<>>)).content = <<"x">>

\* a line with a text delta, in either framing
TextFrames(t) == {DataFrame(t), IndexedFrame(t)}

\* the text call c has received when the body ends, its last line being
\* empty or an unterminated frame of the delta "z"
EndText(c) ==
  IF calls[c].buffer \in TextFrames(<<"z">>) THEN calls[c].full \o <<"z">>
  ELSE calls[c].full

\* the body of call c ends on a line boundary or after an unterminated text
\* frame, with some text received
BodyEnds(c) ==
  /\ ReadDone(c)
  /\ calls[c].buffer \in {<<>>} \cup TextFrames(<<"z">>)
  /\ EndText(c) # <<>>

\* every complete text line adds its delta to the text of the call
TextAccumulates(c) ==
  \A t \in Deltas : \A f \in TextFrames(t) :
    (ReadChunk(c, f \o <<NL>>) /\ calls[c].buffer = <<>>)
    => calls'[c].full = calls[c].full \o t

\* C18 (as claimed): when the body ends without a done frame after text
\* chunks c1..cn, the last line possibly unterminated, one assistant message
\* is appended whose content is the concatenation c1..cn, no error is set
\* and the hook is idle.
C18_BodyEndCommitsConcatenation ==
  [][ \A c \in CallIds :
        /\ TextAccumulates(c)
        /\ BodyEnds(c)
           => /\ messages' = Append(messages, AssistantMessage(EndText(c), c))
              /\ error' = NoError
              /\ Idle' ]_vars

\* C18 (amended): when the body ends after text chunks c1..cn whose
\* concatenation is not empty, the last line possibly unterminated, one
\* assistant message is appended for the call, no error is set and the hook
\* is idle; the content is the concatenation c1..cn when that holds no
\* brace, and otherwise the concatenation with the inline suggestion islands
\* the extractors matched taken out.
C18_BodyEndCommitsText ==
  [][ \A c \in CallIds :
        /\ TextAccumulates(c)
        /\ BodyEnds(c)
           => /\ messages' = Append(messages, messages'[Len(messages')])
              /\ messages'[Len(messages')].role = "assistant"
              /\ messages'[Len(messages')].call = c
              /\ IF \A i \in 1..Len(EndText(c)) : ~HasBrace(EndText(c)[i])
                 THEN messages'[Len(messages')].content = EndText(c)
                 ELSE Len(messages'[Len(messages')].content) <= Len(EndText(c))
              /\ error' = NoError
              /\ Idle' ]_vars

\* a body of one complete text line and one unterminated text line has
\* ended, and the two deltas are the content of the assistant message
C18_Witness ==
  \E c \in CallIds :
    /\ calls[c].outcome = "committed"
    /\ messages = <<UserMessage(<<"b">>, c), AssistantMessage(<<"x", "z">>, c)>>
    /\ error = NoError
    /\ Idle

(* ---------------------------------------------------------------------- *)
(* The user message of a send                                              *)
(* ---------------------------------------------------------------------- *)
\* the hook is idle and its callbacks were made by a render that saw it idle
IdleForCaller == Idle /\ ~rendered.isLoading /\ ~rendered.isStreaming

\* sendMessage(content) appends the trimmed text as one user message
SendAppends(content) ==
  /\ SendMessage(content)
  /\ Len(messages') = Len(messages) + 1
  /\ SubSeq(messages', 1, Len(messages)) = messages
  /\ messages'[Len(messages')].role = "user"
  /\ messages'[Len(messages')].content = Trim(content)
  /\ messages'[Len(messages')].call = nextCall

C20_CloseMinimizes ==
  [][ (close /\ mounted /\ isHydrated /\ isModalOpen) => ~isModalOpen' ]_vars

(* ---------------------------------------------------------------------- *)
(* onErrorOccurred                                                         *)
(* ---------------------------------------------------------------------- *)
\* C30: every failed sendMessage other than a cancellation is reported to
\* onErrorOccurred exactly once, and a cancelled call is reported zero times.
C30_FailureReportedOnce ==
  [][ \A c \in CallIds :
        /\ FailureStep(c) => Len(reports') = 1
        /\ AbortContinue(c) => reports' = <<>>
    ]_vars

(* ---------------------------------------------------------------------- *)
(* Durability of the snapshot                                              *)
(* ---------------------------------------------------------------------- *)
\* the record that holds the conversation as it is in memory
MemorySnapshot ==
  StoredChatData(chatSessionIdRef, messages, suggestedResponses, productSuggestions)

\* the stored record holds the user message of call c
StoredUserMessage(c) ==
  /\ localStore.k = "json"
  /\ \E i \in DOMAIN localStore.messages :
       /\ localStore.messages[i].role = "user"
       /\ localStore.messages[i].call = c
       /\ localStore.messages[i].timestamp = IsoString(c)

\* the user message of call c is in the conversation
InConversation(c) ==
  \E i \in DOMAIN messages : messages[i].role = "user" /\ messages[i].call = c

\* a step in which the response of call c delivers bytes or ends
StreamStep(c) == ReadDone(c) \/ \E bytes \in ReadChunks : ReadChunk(c, bytes)

RenderWithNewPersistence ==
  /\ mounted /\ ~AbortPending
  /\ config.storage = "ok"
  /\ LET s == getOrCreateSessionId(config.storage, localSessionId, nextId)
         ch == getOrCreateChatSessionId(config.storage, sessionChatId, nextId)
         cached == loadCachedChat(localStore)
         restore == cached.k = "json" /\ cached.chatSessionId = ch.id
         saved == SaveEffect(depsChanged, ch.id, messages, suggestedResponses,
                             productSuggestions, localStore)
     IN /\ ~s.fresh /\ ~ch.fresh
        /\ sessionIdRef' = s.id
        /\ chatSessionIdRef' = ch.id
        /\ IF restore
           THEN /\ messages' = cached.messages
                /\ suggestedResponses' = cached.suggestedResponses
                /\ productSuggestions' = IF cached.productSuggestions = Undefined
                                          THEN <<>>
                                          ELSE cached.productSuggestions
           ELSE UNCHANGED <<messages, suggestedResponses, productSuggestions>>
        /\ localStore' = SaveEffect(restore, ch.id, messages', suggestedResponses',
                                    productSuggestions', saved)
  /\ HostEffects
  /\ rendered' = [isLoading |-> isLoading, isStreaming |-> isStreaming]
  /\ dirty' = FALSE
  /\ depsChanged' = FALSE
  /\ UNCHANGED <<mounted, uncaught, config, pageVars, pendingVars, isLoading, isStreaming, streamingMessage, error,
                 abortControllerRef, localSessionId, sessionChatId, calls, nextCall, reads,
                 callLimit, nextId, newChats>>
  /\ reports' = <<>>

InitOptions ==
  /\ mounted = FALSE
  /\ uncaught = FALSE
  /\ NoPage
  /\ NoWidget
  /\ config = NoThrow
  /\ messages = <<>> /\ isLoading = FALSE /\ isStreaming = FALSE
  /\ streamingMessage = <<>> /\ error = NoError
  /\ suggestedResponses = <<>> /\ productSuggestions = <<>>
  /\ rendered = [isLoading |-> FALSE, isStreaming |-> FALSE]
  /\ dirty = FALSE /\ depsChanged = FALSE
  /\ sessionIdRef = 0 /\ chatSessionIdRef = 0 /\ abortControllerRef = 0
  /\ \E b \in {EmptyStores, ResumedStores} :
       /\ localSessionId = b.session
       /\ sessionChatId = b.chat
       /\ localStore = b.store
       /\ nextId = b.nextId
  /\ calls = [c \in CallIds |-> NoCall]
  /\ nextCall = 1
  /\ reads = 0
  /\ callLimit = MaxCalls
  /\ newChats = 0
  /\ reports = <<>>

NextOptions ==
  \/ Mount
  \/ Render
  \/ RenderWithNewPersistence
  \/ \E content \in UserTexts : SendMessage(content)
  \/ clearMessages
  \/ \E c \in CallIds : FetchOk(c)
  \/ \E c \in CallIds, bytes \in ReplyChunks : ReadChunk(c, bytes)
  \/ \E c \in CallIds : ReadDone(c)
  \/ \E c \in CallIds : AbortContinue(c)

SpecOptions == InitOptions /\ [][NextOptions]_vars

\* C27: the persisted snapshot is read once, at initialization: no later
\* event (a state change, sendMessage, the caller passing a new persistence
\* object) replaces the in-memory messages or suggestions with the contents
\* of storage.
C27_StorageReadOnce ==
  [][ mounted =>
        ~ /\ <<messages, suggestedResponses, productSuggestions>>'
               # <<messages, suggestedResponses, productSuggestions>>
          /\ CacheLoad(localStore, chatSessionIdRef).k = "json"
          /\ messages' = CacheLoad(localStore, chatSessionIdRef).messages
          /\ suggestedResponses' = CacheLoad(localStore, chatSessionIdRef).suggestedResponses
    ]_vars

(* ---------------------------------------------------------------------- *)
(* ChatWidget.open(message)                                                *)
(* ---------------------------------------------------------------------- *)
\* message m is a user message of the conversation
SentAsUserMessage(m) ==
  \E i \in DOMAIN messages : messages[i].role = "user" /\ messages[i].content = Trim(m)

\* C21: after ChatWidget.open(message) with a non-empty message on an
\* initialized widget the chat modal is open and the message is eventually
\* sent as a user message of the conversation.
C21_OpenSendsMessage ==
  \A m \in OpenMessages \ {<<>>} :
    (isInitialized /\ pendingMessageKey = m) ~> (isModalOpen /\ SentAsUserMessage(m))

(* ---------------------------------------------------------------------- *)
(* The cart of the embed: ChatWidget.on / off / addToCart / clearCart, the  *)
(* event bridge and the cart button                                        *)
(* ---------------------------------------------------------------------- *)
MaxItems == 2

\* the event names a host page passes to ChatWidget.on
EventTypes == {"cartUpdated", "checkoutStarted", "checkoutRequested"}
\* the handlers of the host page
Handlers == {"h1", "h2"}
\* the product the host page adds
Product == [id |-> "p", price |-> 5, currency |-> "SGD"]

\* cartStore.getState() with n pieces of the product in the cart
CartStateOf(n) ==
  [items |-> n, totalItems |-> n, totalAmount |-> Product.price * n,
   currency |-> Product.currency]

\* what a task outside the cart leaves alone
cartFrame == <<mounted, uncaught, config, engineVars, rendered, dirty, depsChanged, refVars,
               storeVars, calls, nextCall, reads, callLimit, nextId, newChats, reports,
               widgetVars, pendingVars, parseVars>>

\* the handlers emit(event) calls
HandlersOf(ls, event) == IF event \in DOMAIN ls THEN ls[event] ELSE {}

\* EventBridge.emit(event, data): the invocations it makes
emit(ls, event, data) ==
  { [handler |-> h, event |-> event, data |-> data] : h \in HandlersOf(ls, event) }

\* ChatWidget.on(event, handler): EventBridge.on
on(event, handler) ==
  /\ listeners' = IF event \in DOMAIN listeners
                  THEN [listeners EXCEPT ![event] = @ \cup {handler}]
                  ELSE listeners
  /\ invoked' = {}
  /\ UNCHANGED <<cartItems, cartState, isCheckoutOpen, payment, cartFrame>>

\* ChatWidget.off(event, handler): EventBridge.off
off(event, handler) ==
  /\ listeners' = IF event \in DOMAIN listeners
                  THEN [listeners EXCEPT ![event] = @ \ {handler}]
                  ELSE listeners
  /\ invoked' = {}
  /\ UNCHANGED <<cartItems, cartState, isCheckoutOpen, payment, cartFrame>>

\* cartStore.emitUpdate with n pieces in the cart: the handlers of the host
\* are called and handleCartUpdate of the cart button sets its state
emitUpdate(n) ==
  /\ invoked' = emit(listeners, "cartUpdated", CartStateOf(n))
  /\ cartState' = n

\* ChatWidget.addToCart(product): cartStore.addItem
addToCart ==
  /\ cartItems < MaxItems
  /\ cartItems' = cartItems + 1
  /\ emitUpdate(cartItems')
  /\ UNCHANGED <<listeners, isCheckoutOpen, payment, cartFrame>>

\* ChatWidget.clearCart(): cartStore.clear
clearCart ==
  /\ cartItems' = 0
  /\ emitUpdate(0)
  /\ UNCHANGED <<listeners, isCheckoutOpen, payment, cartFrame>>

\* EmbedCartButton.handleCheckoutClick
handleCheckoutClick ==
  /\ IF cartState > 0
     THEN IF payment.useExternalCheckout
          THEN /\ invoked' = emit(listeners, "checkoutRequested", CartStateOf(cartState))
               /\ UNCHANGED isCheckoutOpen
          ELSE /\ isCheckoutOpen' = TRUE
               /\ invoked' = emit(listeners, "checkoutStarted", [items |-> cartState])
     ELSE /\ invoked' = {}
          /\ UNCHANGED isCheckoutOpen
  /\ UNCHANGED <<listeners, cartItems, cartState, payment, cartFrame>>

\* onClose of the built-in checkout modal
onClose ==
  /\ isCheckoutOpen
  /\ isCheckoutOpen' = FALSE
  /\ invoked' = {}
  /\ UNCHANGED <<listeners, cartItems, cartState, payment, cartFrame>>

InitCart ==
  /\ mounted = FALSE
  /\ uncaught = FALSE
  /\ NoWidget
  /\ config = NoThrow
  /\ messages = <<>> /\ isLoading = FALSE /\ isStreaming = FALSE
  /\ streamingMessage = <<>> /\ error = NoError
  /\ suggestedResponses = <<>> /\ productSuggestions = <<>>
  /\ rendered = [isLoading |-> FALSE, isStreaming |-> FALSE]
  /\ dirty = FALSE /\ depsChanged = FALSE
  /\ sessionIdRef = 0 /\ chatSessionIdRef = 0 /\ abortControllerRef = 0
  /\ localSessionId = EmptyStores.session
  /\ sessionChatId = EmptyStores.chat
  /\ localStore = EmptyStores.store
  /\ calls = [c \in CallIds |-> NoCall]
  /\ nextCall = 1
  /\ reads = 0
  /\ callLimit = MaxCalls
  /\ nextId = EmptyStores.nextId
  /\ newChats = 0
  /\ reports = <<>>
  /\ pendingMessageKey = <<>> /\ pendingMessage = <<>>
  /\ line = <<>> /\ parsed = NullEvent
  /\ listeners = NoListeners
  /\ cartItems = 0 /\ cartState = 0
  /\ isCheckoutOpen = FALSE
  /\ invoked = {}
  /\ payment \in { [useExternalCheckout |-> b] : b \in BOOLEAN }

NextCart ==
  \/ \E event \in EventTypes, handler \in Handlers : on(event, handler)
  \/ \E event \in EventTypes, handler \in Handlers : off(event, handler)
  \/ addToCart
  \/ clearCart
  \/ handleCheckoutClick
  \/ onClose

SpecCart == InitCart /\ [][NextCart]_vars

\* C22: ChatWidget.on('checkoutRequested', handler) registers the handler,
\* and when payment.useExternalCheckout is true and the cart is not empty a
\* click on the cart button invokes every handler registered for
\* checkoutRequested with the cart items, the total amount and the currency,
\* and does not open the built-in checkout modal.
C22_ExternalCheckoutRequested ==
  [][ /\ \A h \in Handlers :
           on("checkoutRequested", h) => h \in HandlersOf(listeners', "checkoutRequested")
      /\ (handleCheckoutClick /\ payment.useExternalCheckout /\ cartState > 0)
           => /\ invoked' = emit(listeners, "checkoutRequested", CartStateOf(cartState))
              /\ ~isCheckoutOpen'
    ]_vars

(* ---------------------------------------------------------------------- *)
(* parseSSELine on its own: a line is handed to the parser                 *)
(* ---------------------------------------------------------------------- *)
\* the JSON objects a server may write on a line
LineObjects ==
  { Obj(type, chunk, done, err, finishReason, sr, NoArr) :
      type \in {"", "suggested_responses"}, chunk \in {<<>>, <<"x">>}, done \in BOOLEAN,
      err \in {<<>>, <<"boom">>}, finishReason \in BOOLEAN, sr \in {NoArr, Arr(<<"A">>)} }
    \cup {ProductsObj(<<"p1">>)}

\* what may follow the prefix of a line: a JSON value, text that is not JSON,
\* or nothing
Payloads ==
  { <<Json(v)>> : v \in LineObjects \cup {JNull, JStr(<<>>), JStr(<<"x">>)} }
    \cup { <<Raw(<<"[DONE]">>)>>, <<>> }

\* the trimmed, non-blank lines of a body
ParseLines ==
  { <<Pfx(p)>> \o rest : p \in {"data: ", "0:", "e:", "d:"}, rest \in Payloads }
    \cup { <<Raw(<<"ping">>)>> }

\* parseSSELine has not been called
NotCalled == [null |-> TRUE, called |-> FALSE]

InitParse ==
  /\ mounted = FALSE
  /\ uncaught = FALSE
  /\ NoWidget
  /\ config = NoThrow
  /\ messages = <<>> /\ isLoading = FALSE /\ isStreaming = FALSE
  /\ streamingMessage = <<>> /\ error = NoError
  /\ suggestedResponses = <<>> /\ productSuggestions = <<>>
  /\ rendered = [isLoading |-> FALSE, isStreaming |-> FALSE]
  /\ dirty = FALSE /\ depsChanged = FALSE
  /\ sessionIdRef = 0 /\ chatSessionIdRef = 0 /\ abortControllerRef = 0
  /\ localSessionId = EmptyStores.session
  /\ sessionChatId = EmptyStores.chat
  /\ localStore = EmptyStores.store
  /\ calls = [c \in CallIds |-> NoCall]
  /\ nextCall = 1
  /\ reads = 0
  /\ callLimit = MaxCalls
  /\ nextId = EmptyStores.nextId
  /\ newChats = 0
  /\ reports = <<>>
  /\ pendingMessageKey = <<>> /\ pendingMessage = <<>>
  /\ listeners = NoListeners
  /\ cartItems = 0 /\ cartState = 0
  /\ isCheckoutOpen = FALSE
  /\ invoked = {}
  /\ payment = [useExternalCheckout |-> FALSE]
  /\ line \in ParseLines
  /\ parsed = NotCalled

\* what a call of the parser leaves alone
parseFrame == <<mounted, uncaught, config, engineVars, rendered, dirty, depsChanged, refVars,
                storeVars, calls, nextCall, reads, callLimit, nextId, newChats, reports,
                widgetVars, pendingVars, cartVars>>

\* const parsed = parseSSELine(trimmedLine)
Parse ==
  /\ parsed = NotCalled
  /\ parsed' = parseSSELine(line)
  /\ UNCHANGED <<line, parseFrame>>

NextParse == Parse

SpecParse == InitParse /\ [][NextParse]_vars

\* the payload of the line is a JSON object with a truthy finishReason
HasFinishReason(l) ==
  /\ JsonParses(Tail(l))
  /\ JsonValue(Tail(l)).t = "obj"
  /\ JsonValue(Tail(l)).finishReason

\* the result is a done event
IsDone(p) == ~p.null /\ p.done

\* C24: parseSSELine returns a done event for every line that starts with
\* `d:`, whatever follows the prefix, and for a line that starts with `e:`
\* only if its payload is JSON with a finish-reason field; any other `e:`
\* line yields nothing.
C24_FinishLines ==
  parsed # NotCalled
    => /\ StartsWith(line, "d:") => IsDone(parsed)
       /\ StartsWith(line, "e:") =>
            IF HasFinishReason(line) THEN IsDone(parsed) ELSE parsed = NullEvent

\* the kinds of event a result carries
KindsOf(p) ==
  IF p.null THEN {}
  ELSE {k \in {"chunk", "done", "error", "suggestedResponses", "productSuggestions"} :
          \/ k = "chunk" /\ p.chunk # <<>>
          \/ k = "done" /\ p.done
          \/ k = "error" /\ p.error # <<>>
          \/ k = "suggestedResponses" /\ p.sr.present
          \/ k = "productSuggestions" /\ p.ps.present}

\* C25: the result of parseSSELine is nothing or an event of exactly one
\* kind among text chunk, done, error, suggested replies and product
\* suggestions; it never carries two kinds at once. (An empty text and an
\* absent field are not told apart here, so an event of no kind passes.)
C25_OneKindPerLine ==
  parsed # NotCalled => Cardinality(KindsOf(parsed)) <= 1

(* ---------------------------------------------------------------------- *)
(* Error frames, lines after the done event, and the split of the body     *)
(* into read chunks                                                        *)
(* ---------------------------------------------------------------------- *)
\* the data: lines whose JSON payload has an error field
ErrorFrames == { <<Pfx("data: "), Json(o)>> : o \in {v \in LineObjects : v.error # <<>>} }

\* call c is between two lines of its body
BetweenLines(c) == calls[c].pc = "read" /\ calls[c].buffer = <<>>

\* C23: every data: line whose JSON payload contains an error field,
\* whatever its other fields and wherever it sits in the body, the
\* unterminated last line included, fails the call, and none of its other
\* fields is applied.
C23_ErrorFrameFails ==
  \A c \in CallIds :
    BetweenLines(c)
    => \A f \in ErrorFrames :
         /\ TurnAfter(c, f \o <<NL>>).failed
         /\ TurnAfter(c, f).failed

\* the lines a server may write after the done event
LaterLines ==
  { DataFrame(<<"x">>) \o <<NL>>,
    IndexedFrame(<<"x">>) \o <<NL>>,
    <<Pfx("data: "), Json(SuggestedObj(<<"A">>)), NL>> }

\* what a call with the locals acc and the buffer commits when its body goes
\* on with the read chunks and then ends
RECURSIVE TurnOfReads(_, _, _)
TurnOfReads(acc, buffer, chunks) ==
  IF chunks = <<>>
  THEN LET fin == ProcessRemaining(buffer, acc)
           turn == ResolveTurn(fin.full, fin.rsr, fin.rps)
       IN IF fin.full # <<>>
          THEN [failed |-> FALSE, committed |-> TRUE, content |-> turn.content,
                suggestions |-> turn.suggestions, products |-> turn.products]
          ELSE [failed |-> FALSE, committed |-> FALSE, content |-> <<>>,
                suggestions |-> <<>>, products |-> <<>>]
  ELSE LET lines == Split(buffer \o Head(chunks))
           next == ProcessLines(SubSeq(lines, 1, Len(lines) - 1), acc)
       IN IF next.error # <<>>
          THEN [failed |-> TRUE, committed |-> FALSE, content |-> <<>>,
                suggestions |-> <<>>, products |-> <<>>]
          ELSE TurnOfReads(next, lines[Len(lines)], Tail(chunks))

\* the turn of call c when its body goes on with the read chunks and ends
TurnOf(c, chunks) ==
  TurnOfReads(Locals(calls[c].full, calls[c].rsr, calls[c].rps, <<>>, FALSE),
              calls[c].buffer, chunks)

\* C28: once a done event has been parsed for a response, no text chunk and
\* no suggestion frame from any later line, in the same read chunk or in a
\* later one, is added to the committed turn.
C28_NothingAfterDone ==
  \A c \in CallIds :
    BetweenLines(c)
    => \A d \in {DataDone, IndexedDone} : \A later \in LaterLines :
         /\ TurnOf(c, <<d \o <<NL>> \o later>>) = TurnOf(c, <<d \o <<NL>> >>)
         /\ TurnOf(c, <<d \o <<NL>>, later>>) = TurnOf(c, <<d \o <<NL>> >>)

\* the bodies of a response, line by line; the last line may lack its newline
SplitBodies ==
  { DataFrame(<<"x">>) \o <<NL>> \o DataFrame(<<"y">>) \o <<NL>> \o DataDone \o <<NL>>,
    DataFrame(<<"x">>) \o <<NL>> \o IndexedFrame(<<"z">>),
    DataFrame(<<"x">>) \o <<NL>> \o DataDone \o <<NL>>
      \o <<Pfx("data: "), Json(SuggestedObj(<<"A">>)), NL>>,
    IndexedFrame(<<"x">>) \o <<NL>> \o IndexedDone \o <<NL>> \o IndexedFrame(<<"y">>) \o <<NL>> }

\* the ways to deliver a body in one read chunk or in two
SplitsOf(body) ==
  { <<body>> } \cup
  { <<SubSeq(body, 1, k), SubSeq(body, k + 1, Len(body))>> : k \in 1..(Len(body) - 1) }

\* C29: the committed message content and suggestions depend only on the
\* sequence of lines of the body, not on how the body is split into read
\* chunks (splits inside a line and a last line without newline included).
C29_SplitIndependent ==
  \A c \in CallIds :
    BetweenLines(c)
    => \A body \in SplitBodies : \A s1, s2 \in SplitsOf(body) :
         TurnOf(c, s1) = TurnOf(c, s2)

====
